---- MODULE Spec2Model ----
(***************************************************************************)
(* A model of the weather-intelligence-api gateway: the in-memory cache    *)
(* (app/cache.py), the batch orchestrator (app/batch.py and its handler in *)
(* app/main.py), the webhook engine (app/webhooks.py) and the              *)
(* current-weather request path (app/main.py).                             *)
(*                                                                         *)
(* Strings whose structure matters (cache key strings, webhook store keys) *)
(* are sequences of characters or tokens, so that concatenation, sorting   *)
(* and prefix tests are computed as the code computes them.                *)
(***************************************************************************)
EXTENDS Integers, Sequences, FiniteSets, TLC

None == "None"

(***************************************************************************)
(* Generic sequence helpers.                                               *)
(***************************************************************************)
Range(s) == {s[i] : i \in 1..Len(s)}

IsPrefix(p, s) == Len(p) <= Len(s) /\ SubSeq(s, 1, Len(p)) = p

RECURSIVE SumOver(_, _)
SumOver(S, f) ==
  IF S = {} THEN 0
  ELSE LET x == CHOOSE y \in S : TRUE IN f[x] + SumOver(S \ {x}, f)

(***************************************************************************)
(* State.                                                                  *)
(***************************************************************************)
VARIABLES
  CACHE,    \* cache.py CACHE: key -> [data, timestamp, hits, endpoint]
  now,      \* time.time(), in seconds
  ticks,    \* number of clock advances so far
  ccall,    \* the last cache call: its name, its arguments and what it found
  cret,     \* the value the last cache call returned
  cother,   \* the third query of the run (see CacheInputs)
  cgets,    \* history: key -> the gets that returned its payload since its last set
  WEBHOOKS_DB, \* webhooks.py WEBHOOKS_DB: the dict's items in insertion order
  issued,   \* the ids uuid4 has returned so far
  ownerOf,  \* history: id -> the api_key create_webhook was called with
  wcall,    \* the last webhook call and its arguments
  wret,     \* the value the last webhook call returned
  deleted,  \* history: the <<api_key, webhook_id>> delete_webhook returned True for
  API_KEYS_DB, \* auth.py API_KEYS_DB: api key -> key_info
  breq,     \* the batch request being handled
  bpc,      \* where its handler is: "idle", "gathering" or "done"
  bstatus,  \* the HTTP status of the batch response
  btasks,   \* process_batch_request: tasks, in the order they were appended
  gathered, \* asyncio.gather: per task, its result or Pending
  gresp,    \* history: per task, the provider's answer to its fetch
  overtook, \* history: some task resolved while an earlier one was pending
  bout,     \* the BatchWeatherResponse returned
  reqs,     \* the current-weather requests so far, in order of arrival
  deliveries, \* the send_webhook tasks created and not yet run
  fin,      \* the arguments a function is applied to
  fout      \* the value it returned

cacheVars == <<CACHE, now, ticks, ccall, cret, cother, cgets>>

webhookVars == <<WEBHOOKS_DB, issued, ownerOf, wcall, wret, deleted>>

authVars == <<API_KEYS_DB>>

batchVars == <<breq, bpc, bstatus, btasks, gathered, gresp, overtook, bout>>

requestVars == <<reqs, deliveries>>

functionVars == <<fin, fout>>

vars == <<CACHE, now, ticks, ccall, cret, cother, cgets, WEBHOOKS_DB, issued, ownerOf, wcall, wret,
          deleted, fin, fout,
          API_KEYS_DB, breq, bpc, bstatus, btasks, gathered, gresp, overtook, bout,
          reqs, deliveries>>

(***************************************************************************)
(* Bounds of the cache model.                                              *)
(***************************************************************************)
MaxTicks == 1
MaxHits == 2

\* clock advances the model offers (seconds)
Steps == {60, 300}

(***************************************************************************)
(* app/cache.py                                                            *)
(***************************************************************************)
TTL == 300

\* JSON-able scalar values: a string, a number (v is its numeral) or null
StrVal(s) == [t |-> "str", v |-> s]
NumVal(s) == [t |-> "num", v |-> s]
NullVal == [t |-> "null", v |-> ""]

Endpoints == {"current_weather", "forecast"}
PKeys == {"city", "units"}
ValsOf(k) == IF k = "city" THEN {StrVal("London"), StrVal("null"), NullVal}
             ELSE {StrVal("metric")}
Payloads == {"r1", "r2"}

\* a Python dict in insertion order: a sequence of <<key, value>> items with
\* distinct keys
Dicts ==
  LET D1 == {<<<<k, v>>>> : k \in PKeys, v \in UNION {ValsOf(kk) : kk \in PKeys}}
      D2 == {<<a, b>> : a \in UNION {{<<k, v>> : v \in ValsOf(k)} : k \in PKeys},
                        b \in UNION {{<<k, v>> : v \in ValsOf(k)} : k \in PKeys}}
  IN {<<>>}
     \cup {d \in D1 : d[1][2] \in ValsOf(d[1][1])}
     \cup {d \in D2 : d[1][1] # d[2][1]}

\* the mapping a dict denotes, whatever its insertion order
PairSet(d) == Range(d)

\* Python's ordering of the key strings of the model
KeyRank(k) == CASE k = "city" -> 1 [] k = "country" -> 2 [] k = "lat" -> 3
                [] k = "lon" -> 4 [] k = "units" -> 5 [] OTHER -> 6

RECURSIVE InsertItem(_, _)
InsertItem(item, sorted) ==
  IF sorted = <<>> THEN <<item>>
  ELSE IF KeyRank(item[1]) <= KeyRank(Head(sorted)[1])
       THEN <<item>> \o sorted
       ELSE <<Head(sorted)>> \o InsertItem(item, Tail(sorted))

RECURSIVE SortItems(_)
SortItems(d) == IF d = <<>> THEN <<>> ELSE InsertItem(Head(d), SortItems(Tail(d)))

UnsortedItems(d) == d

\* the item order json.dumps(..., sort_keys=True) emits
DumpOrder(d) == SortItems(d)

JsonScalar(val) == IF val.t = "str" THEN <<"\"", val.v, "\"">>
                   ELSE IF val.t = "num" THEN <<val.v>>
                   ELSE <<"null">>

RECURSIVE JsonItems(_)
JsonItems(items) ==
  IF items = <<>> THEN <<>>
  ELSE <<"\"", Head(items)[1], "\"", ": ">> \o JsonScalar(Head(items)[2])
       \o (IF Tail(items) = <<>> THEN <<>> ELSE <<", ">>)
       \o JsonItems(Tail(items))

JsonDumps(d) == <<"{">> \o JsonItems(DumpOrder(d)) \o <<"}">>

\* hashlib.md5(...).hexdigest(): a digest taken as collision-free on the inputs
\* of the model
Md5(s) == <<"md5">> \o s

GenerateKey(endpoint, params) == Md5(<<endpoint, ":">> \o JsonDumps(params))

\* the inputs the cache operations are called with
CacheLondon == <<<<"city", StrVal("London")>>, <<"units", StrVal("metric")>>>>
CacheLondonReordered == <<<<"units", StrVal("metric")>>, <<"city", StrVal("London")>>>>
CacheNowhere == <<<<"city", NullVal>>, <<"units", StrVal("metric")>>>>

\* the calls of one run: a query, the same query with its params reordered, and a
\* third query that differs from it in the endpoint or in a parameter value
CacheOthers == {<<"forecast", CacheLondon>>, <<"current_weather", CacheNowhere>>}

CacheInputs == {<<"current_weather", CacheLondon>>,
                <<"current_weather", CacheLondonReordered>>, cother}

Expired(entry, t) == ~(t - entry.timestamp < TTL)

\* WeatherCache.get: the returned value
GetReturn(cache, t, endpoint, params) ==
  LET key == GenerateKey(endpoint, params) IN
  IF key \in DOMAIN cache /\ ~Expired(cache[key], t) THEN cache[key].data ELSE None

GetStoreKeepExpired(cache, t, endpoint, params) ==
  LET key == GenerateKey(endpoint, params) IN
  IF key \in DOMAIN cache /\ ~Expired(cache[key], t)
  THEN [cache EXCEPT ![key].hits = @ + 1]
  ELSE cache

\* WeatherCache.get: the store it leaves
GetStore(cache, t, endpoint, params) ==
  LET key == GenerateKey(endpoint, params) IN
  IF key \in DOMAIN cache
  THEN IF ~Expired(cache[key], t)
       THEN [cache EXCEPT ![key].hits = @ + 1]
       ELSE [k \in DOMAIN cache \ {key} |-> cache[k]]
  ELSE cache

SetStoreKeepHits(cache, t, endpoint, params, data) ==
  LET key == GenerateKey(endpoint, params) IN
  [k \in DOMAIN cache \cup {key} |->
     IF k = key THEN [data |-> data, timestamp |-> t,
                      hits |-> IF k \in DOMAIN cache THEN cache[k].hits ELSE 0,
                      endpoint |-> endpoint, args |-> params]
     ELSE cache[k]]

\* WeatherCache.set; args is a history field (the params of the writing call), not
\* a field of the code's entry
SetStore(cache, t, endpoint, params, data) ==
  LET key == GenerateKey(endpoint, params) IN
  [k \in DOMAIN cache \cup {key} |->
     IF k = key THEN [data |-> data, timestamp |-> t, hits |-> 0, endpoint |-> endpoint,
                      args |-> params]
     ELSE cache[k]]

\* WeatherCache.clear_expired
ExpiredKeys(cache, t) == {k \in DOMAIN cache : t - cache[k].timestamp > TTL}

ClearExpiredStore(cache, t) == [k \in DOMAIN cache \ ExpiredKeys(cache, t) |-> cache[k]]

\* WeatherCache.get_stats
GetStats(cache) ==
  [total_entries |-> Cardinality(DOMAIN cache),
   total_hits |-> SumOver(DOMAIN cache, [k \in DOMAIN cache |-> cache[k].hits])]

\* the value a cache call returns: data for get, count for clear_expired, the two
\* totals for get_stats
Ret(data, count, entries, hits) ==
  [data |-> data, count |-> count, total_entries |-> entries, total_hits |-> hits]

NoRet == Ret(None, 0, 0, 0)

NoCall == [op |-> "none", found |-> "none", endpoint |-> None, params |-> <<>>]

\* the history of gets after a get of key that returned data, for the keys stored
CountGet(gets, stored, key, data) ==
  [k \in stored |-> IF k \notin DOMAIN gets THEN 0
                    ELSE IF k = key /\ data # None THEN gets[k] + 1 ELSE gets[k]]

\* the history of gets after a set of key
CountSet(gets, stored, key) ==
  [k \in stored |-> IF k = key \/ k \notin DOMAIN gets THEN 0 ELSE gets[k]]

\* what a get finds under its key
Lookup(cache, t, endpoint, params) ==
  LET key == GenerateKey(endpoint, params) IN
  IF key \notin DOMAIN cache THEN "miss"
  ELSE IF t - cache[key].timestamp >= TTL THEN "expired" ELSE "hit"

Get(endpoint, params) ==
  /\ Lookup(CACHE, now, endpoint, params) = "hit"
       => CACHE[GenerateKey(endpoint, params)].hits < MaxHits
  /\ CACHE' = GetStore(CACHE, now, endpoint, params)
  /\ cret' = Ret(GetReturn(CACHE, now, endpoint, params), 0, 0, 0)
  /\ ccall' = [op |-> "get", found |-> Lookup(CACHE, now, endpoint, params),
               endpoint |-> endpoint, params |-> params]
  /\ cgets' = CountGet(cgets, DOMAIN CACHE', GenerateKey(endpoint, params), cret'.data)
  /\ UNCHANGED <<now, ticks, cother>>

Set(endpoint, params, data) ==
  /\ CACHE' = SetStore(CACHE, now, endpoint, params, data)
  /\ cret' = NoRet
  /\ ccall' = [op |-> "set", found |-> "none", endpoint |-> endpoint, params |-> params]
  /\ cgets' = CountSet(cgets, DOMAIN CACHE', GenerateKey(endpoint, params))
  /\ UNCHANGED <<now, ticks, cother>>

ClearExpired ==
  /\ CACHE' = ClearExpiredStore(CACHE, now)
  /\ cret' = Ret(None, Cardinality(ExpiredKeys(CACHE, now)), 0, 0)
  /\ ccall' = [NoCall EXCEPT !.op = "clear_expired"]
  /\ cgets' = [k \in DOMAIN CACHE' |-> cgets[k]]
  /\ UNCHANGED <<now, ticks, cother>>

Stats ==
  /\ cret' = Ret(None, 0, GetStats(CACHE).total_entries, GetStats(CACHE).total_hits)
  /\ ccall' = [NoCall EXCEPT !.op = "get_stats"]
  /\ UNCHANGED <<CACHE, now, ticks, cother, cgets>>

Tick(d) ==
  /\ ticks < MaxTicks
  /\ now' = now + d
  /\ ticks' = ticks + 1
  /\ UNCHANGED <<CACHE, ccall, cret, cother, cgets>>

CacheNext ==
  \/ \E c \in CacheInputs : Get(c[1], c[2])
  \/ \E c \in CacheInputs, r \in Payloads : Set(c[1], c[2], r)
  \/ ClearExpired
  \/ Stats
  \/ \E d \in Steps : Tick(d)

(***************************************************************************)
(* app/webhooks.py: the subscription store.  API keys and ids are strings, *)
(* modelled as sequences of characters.                                    *)
(***************************************************************************)
MaxUuids == 2

\* the None of an Optional[str] field
NoneStr == <<None>>

UuidChars == <<"1", "2", "3", "4", "5", "6">>

\* the strings uuid.uuid4() can return: hexadecimal digits and dashes, no colon
Uuids == {<<UuidChars[n]>> : n \in 1..MaxUuids}

\* str(uuid.uuid4()): a random 122-bit id, taken as never returned twice
FreshUuids(used) == Uuids \ used

\* the api_key strings create/list/delete are called with
Owners == {<<"k">>, <<"j">>, <<"k", ":", "x">>}

\* the webhook_id strings delete is called with: ids as issued, and ids with a
\* prefix put in front
DeleteIds == Uuids \cup {<<"x", ":">> \o u : u \in Uuids}

\* WebhookConfig as submitted
Configs ==
  {[id |-> i, name |-> "alert", callback_url |-> "https://cb", city |-> "London",
    conditions |-> <<>>, is_active |-> a, created_at |-> 0]
     : i \in {NoneStr, <<UuidChars[1]>>}, a \in BOOLEAN}

\* f"{api_key}:{webhook_id}"
StoreKey(api_key, webhook_id) == api_key \o <<":">> \o webhook_id

DictKeys(db) == {db[i].key : i \in 1..Len(db)}

DictIndex(db, key) == CHOOSE i \in 1..Len(db) : db[i].key = key

\* d[key] = value on a Python dict: a present key keeps its place
DictPut(db, key, value) ==
  IF key \in DictKeys(db)
  THEN [db EXCEPT ![DictIndex(db, key)] = [key |-> key, webhook |-> value]]
  ELSE Append(db, [key |-> key, webhook |-> value])

\* del d[key]
DictDel(db, key) ==
  LET i == DictIndex(db, key) IN SubSeq(db, 1, i - 1) \o SubSeq(db, i + 1, Len(db))

StoredIds(db) == {db[i].webhook.id : i \in 1..Len(db)}

CreateIdKeepSupplied(webhook, uuid) == IF webhook.id # NoneStr THEN webhook.id ELSE uuid

\* create_webhook: the id the subscription gets, uuid being the value of uuid4()
CreateId(webhook, uuid) == uuid

\* create_webhook: the store it leaves
CreateStore(db, webhook, api_key, uuid, t) ==
  LET webhook_id == CreateId(webhook, uuid) IN
  DictPut(db, StoreKey(api_key, webhook_id),
          [webhook EXCEPT !.id = webhook_id, !.created_at = t])

\* get_webhooks
GetWebhooks(db, api_key) ==
  LET Mine(item) == IsPrefix(api_key \o <<":">>, item.key)
      sel == SelectSeq(db, Mine)
  IN [i \in 1..Len(sel) |-> sel[i].webhook]

\* delete_webhook: the returned value
DeleteReturn(db, webhook_id, api_key) == StoreKey(api_key, webhook_id) \in DictKeys(db)

\* delete_webhook: the store it leaves
DeleteStore(db, webhook_id, api_key) ==
  IF StoreKey(api_key, webhook_id) \in DictKeys(db)
  THEN DictDel(db, StoreKey(api_key, webhook_id))
  ELSE db

WRet(id, ok, list) == [id |-> id, ok |-> ok, list |-> list]

NoWRet == WRet(NoneStr, FALSE, <<>>)

NoWCall == [op |-> "none", api_key |-> <<>>, webhook_id |-> NoneStr, supplied |-> NoneStr]

CreateWebhook(webhook, api_key) ==
  \E uuid \in FreshUuids(issued) :
     /\ WEBHOOKS_DB' = CreateStore(WEBHOOKS_DB, webhook, api_key, uuid, now)
     /\ issued' = issued \cup {uuid}
     /\ ownerOf' = [u \in DOMAIN ownerOf \cup {uuid} |->
                      IF u = uuid THEN api_key ELSE ownerOf[u]]
     /\ wret' = WRet(CreateId(webhook, uuid), FALSE, <<>>)
     /\ wcall' = [op |-> "create", api_key |-> api_key,
                  webhook_id |-> NoneStr, supplied |-> webhook.id]
     /\ UNCHANGED deleted

ListWebhooks(api_key) ==
  /\ wret' = WRet(NoneStr, FALSE, GetWebhooks(WEBHOOKS_DB, api_key))
  /\ wcall' = [NoWCall EXCEPT !.op = "list", !.api_key = api_key]
  /\ UNCHANGED <<WEBHOOKS_DB, issued, ownerOf, deleted>>

DeleteWebhook(webhook_id, api_key) ==
  /\ WEBHOOKS_DB' = DeleteStore(WEBHOOKS_DB, webhook_id, api_key)
  /\ wret' = WRet(NoneStr, DeleteReturn(WEBHOOKS_DB, webhook_id, api_key), <<>>)
  /\ wcall' = [NoWCall EXCEPT !.op = "delete", !.api_key = api_key,
                              !.webhook_id = webhook_id]
  /\ deleted' = IF DeleteReturn(WEBHOOKS_DB, webhook_id, api_key)
                THEN deleted \cup {<<api_key, webhook_id>>}
                ELSE deleted
  /\ UNCHANGED <<issued, ownerOf>>

WebhookNext ==
  \/ \E w \in Configs, k \in Owners : CreateWebhook(w, k)
  \/ \E k \in Owners : ListWebhooks(k)
  \/ \E x \in DeleteIds, k \in Owners : DeleteWebhook(x, k)

(***************************************************************************)
(* app/auth.py                                                             *)
(***************************************************************************)
DemoKey == "demo_key_12345"

\* the bearer credentials requests carry
Credentials == {DemoKey, "invalid_key", ""}

\* last_used = None
NoTime == -1

SecondsPerDay == 86400

\* TIER_LIMITS[tier]["daily"]
DailyLimit(tier) == CASE tier = "basic" -> 1000
                      [] tier = "premium" -> 10000
                      [] tier = "enterprise" -> 100000

\* _check_rate_limits; (now - last_used).days is the whole days of the difference
CheckRateLimits(key_info, t) ==
  IF key_info.last_used # NoTime /\ (t - key_info.last_used) \div SecondsPerDay = 0
  THEN ~(key_info.requests_count >= DailyLimit(key_info.tier))
  ELSE TRUE

\* verify_api_key: the status it ends with (200: it returns key_info)
VerifyStatus(db, t, api_key) ==
  IF api_key = "" THEN 401
  ELSE IF api_key \notin DOMAIN db THEN 401
  ELSE IF ~db[api_key].is_active THEN 401
  ELSE IF CheckRateLimits(db[api_key], t) THEN 200
  ELSE 429

VerifyStoreCountingAll(db, t, api_key) ==
  IF api_key \in DOMAIN db
  THEN [db EXCEPT ![api_key].requests_count = @ + 1, ![api_key].last_used = t]
  ELSE db

\* verify_api_key: the key store it leaves
VerifyStore(db, t, api_key) ==
  IF VerifyStatus(db, t, api_key) = 200
  THEN [db EXCEPT ![api_key].requests_count = @ + 1, ![api_key].last_used = t]
  ELSE db

(***************************************************************************)
(* app/batch.py and the /weather/batch handler of app/main.py.             *)
(***************************************************************************)
MaxLocations == 2
MaxTasks == 4

MaxBatchLocations == 50
MaxBatchEndpoints == 3

Pending == [pending |-> TRUE]

BatchCities == {"London", "Paris"}
BatchEndpoints == {"current", "forecast", "analytics"}
ValidEndpoints == {"current", "forecast"}

\* what the provider does with one fetch
ProviderAnswers == {"ok", "http_error", "timeout", "malformed"}

SeqsUpTo(S, n) == UNION {[1..m -> S] : m \in 0..n}

TooManyLocations == [i \in 1..(MaxBatchLocations + 1) |-> "London"]

\* the batch requests of the model: those with at most MaxLocations locations and
\* MaxTasks location-endpoint pairs, and those with a location list over the limit
BatchRequests ==
  {[locations |-> l, endpoints |-> e] :
     l \in SeqsUpTo(BatchCities, MaxLocations) \cup {TooManyLocations},
     e \in SeqsUpTo(BatchEndpoints, MaxBatchEndpoints + 1)}

BatchInputs ==
  {r \in BatchRequests : Len(r.locations) * Len(r.endpoints) <= MaxTasks
                         \/ Len(r.locations) > MaxBatchLocations}

\* batch_weather_request: the status its validation ends with (200: it goes on)
ValidateBatch(req) ==
  IF Len(req.locations) > MaxBatchLocations THEN 400
  ELSE IF Len(req.endpoints) > MaxBatchEndpoints THEN 400
  ELSE IF \E i \in 1..Len(req.endpoints) : req.endpoints[i] \notin ValidEndpoints THEN 400
  ELSE 200

\* process_batch_request: the tasks, locations in the outer loop
RECURSIVE TaskList(_, _)
TaskList(locations, endpoints) ==
  IF locations = <<>> THEN <<>>
  ELSE [j \in 1..Len(endpoints) |-> [location |-> Head(locations), endpoint |-> endpoints[j]]]
       \o TaskList(Tail(locations), endpoints)

\* a result dict: error is None when the dict has no "error" key; raised marks an
\* exception object in place of a dict
Result(error, location, endpoint, raised) ==
  [error |-> error, location |-> location, endpoint |-> endpoint, raised |-> raised]

\* fetch_weather_data, the provider answering `answer`
FetchWeatherData(location, endpoint, answer) ==
  IF endpoint \notin ValidEndpoints
  THEN Result("Unsupported endpoint", None, None, FALSE)
  ELSE IF answer = "ok"
  THEN Result(None, location, endpoint, FALSE)
  ELSE Result(answer, location, endpoint, FALSE)

GatherFailFast(results, k, result) ==
  IF result.error # None
  THEN [i \in DOMAIN results |->
          IF i = k THEN result
          ELSE IF results[i] = Pending THEN Result("cancelled", None, None, TRUE)
          ELSE results[i]]
  ELSE [results EXCEPT ![k] = result]

GatherAsCompleted(results, k, result) ==
  [results EXCEPT ![CHOOSE i \in DOMAIN results :
                      results[i] = Pending /\ \A j \in 1..(i - 1) : results[j] # Pending]
                    = result]

GatherReturnPartial(results) ==
  [done |-> results = <<>> \/ \E k \in DOMAIN results : results[k] # Pending,
   results |-> SelectSeq(results, LAMBDA r : r # Pending)]

\* results = await asyncio.gather(*tasks, return_exceptions=True): whether the
\* await has ended, and with what list
GatherReturn(results) ==
  [done |-> \A k \in DOMAIN results : results[k] # Pending,
   results |-> results]

\* asyncio.gather(*tasks, return_exceptions=True): task k has resolved to result
GatherPut(results, k, result) == [results EXCEPT ![k] = result]

\* process_batch_request: one result as it is put into processed_results
ProcessResult(result) ==
  IF result.raised THEN Result(result.error, None, None, FALSE) ELSE result

IsError(result) == result.raised \/ result.error # None

RECURSIVE CountErrors(_)
CountErrors(results) ==
  IF results = <<>> THEN 0
  ELSE (IF IsError(Head(results)) THEN 1 ELSE 0) + CountErrors(Tail(results))

RECURSIVE CountSuccesses(_)
CountSuccesses(results) ==
  IF results = <<>> THEN 0
  ELSE (IF IsError(Head(results)) THEN 0 ELSE 1) + CountSuccesses(Tail(results))

SummaryCountingAll(req, tasks, results) ==
  [total_requests |-> Len(tasks),
   successful |-> Len(results),
   failed |-> CountErrors(results),
   locations_processed |-> Len(req.locations),
   endpoints_requested |-> req.endpoints]

\* process_batch_request: the summary
Summary(req, tasks, results) ==
  [total_requests |-> Len(tasks),
   successful |-> CountSuccesses(results),
   failed |-> CountErrors(results),
   locations_processed |-> Len(req.locations),
   endpoints_requested |-> req.endpoints]

\* process_batch_request: the response, once gather has returned
BatchResponse(req, tasks, results) ==
  [results |-> [i \in 1..Len(results) |-> ProcessResult(results[i])],
   summary |-> Summary(req, tasks, results)]

NoBatch == [locations |-> <<>>, endpoints |-> <<>>]

NoResponse == [results |-> <<>>, summary |-> Summary(NoBatch, <<>>, <<>>)]

\* batch_weather_request up to the await on gather: verification, validation and
\* the creation of the tasks
SubmitBatch(credential, req) ==
  /\ bpc = "idle"
  /\ breq' = req
  /\ API_KEYS_DB' = VerifyStore(API_KEYS_DB, now, credential)
  /\ LET status == IF VerifyStatus(API_KEYS_DB, now, credential) # 200
                   THEN VerifyStatus(API_KEYS_DB, now, credential)
                   ELSE ValidateBatch(req)
     IN IF status # 200
        THEN /\ bpc' = "done"
             /\ bstatus' = status
             /\ UNCHANGED <<btasks, gathered, gresp>>
        ELSE /\ bpc' = "gathering"
             /\ bstatus' = 0
             /\ btasks' = TaskList(req.locations, req.endpoints)
             /\ gathered' = [k \in 1..Len(TaskList(req.locations, req.endpoints)) |-> Pending]
             /\ gresp' = [k \in 1..Len(TaskList(req.locations, req.endpoints)) |-> None]
  /\ UNCHANGED <<overtook, bout>>

\* one fetch task resolves, the provider having answered `answer`
ResolveTask(k, answer) ==
  /\ bpc = "gathering"
  /\ k \in DOMAIN gathered
  /\ gresp[k] = None
  /\ gathered' = GatherPut(gathered, k,
                           FetchWeatherData(btasks[k].location, btasks[k].endpoint, answer))
  /\ gresp' = [gresp EXCEPT ![k] = answer]
  /\ overtook' = (overtook \/ \E j \in 1..(k - 1) : gresp[j] = None)
  /\ UNCHANGED <<API_KEYS_DB, breq, bpc, bstatus, btasks, bout>>

\* gather returns once every task has resolved; the response is built
FinishBatch ==
  /\ bpc = "gathering"
  /\ GatherReturn(gathered).done
  /\ bout' = BatchResponse(breq, btasks, GatherReturn(gathered).results)
  /\ bstatus' = 200
  /\ bpc' = "done"
  /\ UNCHANGED <<API_KEYS_DB, breq, btasks, gathered, gresp, overtook>>

BatchNext ==
  \/ \E c \in Credentials, r \in BatchInputs : SubmitBatch(c, r)
  \/ \E k \in 1..MaxTasks, a \in ProviderAnswers : ResolveTask(k, a)
  \/ FinishBatch

\* process_batch_request called with a request as it is (no validation of its
\* own), up to the await on gather
ProcessBatchRequest(req) ==
  /\ bpc = "idle"
  /\ breq' = req
  /\ bpc' = "gathering"
  /\ bstatus' = 0
  /\ btasks' = TaskList(req.locations, req.endpoints)
  /\ gathered' = [k \in 1..Len(TaskList(req.locations, req.endpoints)) |-> Pending]
  /\ gresp' = [k \in 1..Len(TaskList(req.locations, req.endpoints)) |-> None]
  /\ UNCHANGED <<API_KEYS_DB, overtook, bout>>

ProcessNext ==
  \/ \E r \in BatchInputs : Len(r.locations) <= MaxBatchLocations /\ ProcessBatchRequest(r)
  \/ \E k \in 1..MaxTasks, a \in ProviderAnswers : ResolveTask(k, a)
  \/ FinishBatch

(***************************************************************************)
(* The current-weather request path: GET /weather/current of app/main.py,  *)
(* with cache_key_for_weather (app/cache.py) and the evaluation and        *)
(* dispatch of webhooks (app/webhooks.py).                                 *)
(***************************************************************************)
MaxRequests == 2

\* a Python value is truthy unless it is None, zero or empty
Truthy(val) == val.t # "null" /\ val.v \notin {"", "0", "0.0"}

\* the query parameters of a request
QLondon == [city |-> "London", country |-> NullVal, lat |-> NullVal, lon |-> NullVal,
            units |-> "metric"]
QCoords == [city |-> "London", country |-> NullVal, lat |-> NumVal("51.5"),
            lon |-> NumVal("-0.1"), units |-> "metric"]
Queries == {QLondon, QCoords}

\* cache_key_for_weather
CacheKeyForWeather(q) ==
  IF Truthy(q.lat) /\ Truthy(q.lon)
  THEN <<<<"lat", q.lat>>, <<"lon", q.lon>>, <<"units", StrVal(q.units)>>>>
  ELSE <<<<"city", StrVal(q.city)>>, <<"country", q.country>>, <<"units", StrVal(q.units)>>>>

\* character strings: a str is the sequence of its characters
UpperChars == <<"A", "B", "C", "D", "E", "F", "G", "H", "I", "J", "K", "L", "M",
                "N", "O", "P", "Q", "R", "S", "T", "U", "V", "W", "X", "Y", "Z">>
LowerChars == <<"a", "b", "c", "d", "e", "f", "g", "h", "i", "j", "k", "l", "m",
                "n", "o", "p", "q", "r", "s", "t", "u", "v", "w", "x", "y", "z">>

LowerChar(c) == IF \E i \in 1..26 : UpperChars[i] = c
                THEN LowerChars[CHOOSE i \in 1..26 : UpperChars[i] = c]
                ELSE c

\* str.lower()
Lower(str) == [i \in 1..Len(str) |-> LowerChar(str[i])]

\* a in b, on strings
Contains(a, b) == \E i \in 1..(Len(b) + 1) : i + Len(a) - 1 <= Len(b)
                                             /\ SubSeq(b, i, i + Len(a) - 1) = a

DigitChars == <<"0", "1", "2", "3", "4", "5", "6", "7", "8", "9">>

\* str() of an int
RECURSIVE Digits(_)
Digits(n) == IF n < 0 THEN <<"-">> \o Digits(0 - n)
             ELSE IF n < 10 THEN <<DigitChars[n + 1]>>
             ELSE Digits(n \div 10) \o <<DigitChars[(n % 10) + 1]>>

\* the description strings of the model
ClearSky == <<"c", "l", "e", "a", "r", " ", "s", "k", "y">>
LightRain == <<"l", "i", "g", "h", "t", " ", "r", "a", "i", "n">>
FewClouds == <<"f", "e", "w", " ", "c", "l", "o", "u", "d", "s">>
OvercastClouds == <<"o", "v", "e", "r", "c", "a", "s", "t", " ", "c", "l", "o", "u", "d", "s">>
Thunderstorm == <<"t", "h", "u", "n", "d", "e", "r", "s", "t", "o", "r", "m">>
Mist == <<"m", "i", "s", "t">>
\* a description as a provider may spell it, with capitals
ClearSkyCaps == <<"C", "l", "e", "a", "r", " ", "S", "k", "y">>
Descriptions == {ClearSky, LightRain, FewClouds, OvercastClouds, Thunderstorm, Mist}

\* _calculate_weather_score before the clamp
RawWeatherScore(temp, humidity, description) ==
  LET d == Lower(description) IN
  50
  + (IF 18 <= temp /\ temp <= 25 THEN 30
     ELSE IF 15 <= temp /\ temp <= 30 THEN 20
     ELSE IF 10 <= temp /\ temp <= 35 THEN 10
     ELSE 0)
  + (IF 40 <= humidity /\ humidity <= 60 THEN 20
     ELSE IF 30 <= humidity /\ humidity <= 70 THEN 10
     ELSE 0)
  + (IF Contains(<<"c", "l", "e", "a", "r">>, d) THEN 20
     ELSE IF Contains(<<"f", "e", "w", " ", "c", "l", "o", "u", "d", "s">>, d) \/ Contains(<<"s", "c", "a", "t", "t", "e", "r", "e", "d", " ", "c", "l", "o", "u", "d", "s">>, d) THEN 15
     ELSE IF Contains(<<"b", "r", "o", "k", "e", "n", " ", "c", "l", "o", "u", "d", "s">>, d) \/ Contains(<<"o", "v", "e", "r", "c", "a", "s", "t">>, d) THEN 5
     ELSE IF Contains(<<"r", "a", "i", "n">>, d) THEN 0 - 20
     ELSE IF Contains(<<"s", "t", "o", "r", "m">>, d) \/ Contains(<<"t", "h", "u", "n", "d", "e", "r", "s", "t", "o", "r", "m">>, d) THEN 0 - 30
     ELSE 0)

Max(a, b) == IF a >= b THEN a ELSE b
Min(a, b) == IF a <= b THEN a ELSE b

ClampNoUpper(score) == Max(0, score)

\* max(0, min(100, score))
Clamp(score) == Max(0, Min(100, score))

\* _calculate_weather_score
CalculateWeatherScore(temp, humidity, description) ==
  Clamp(RawWeatherScore(temp, humidity, description))

\* the readings the provider answers with, named; enhanced_data is the reading a
\* name stands for
Readings == {"hot_clear", "mild_rain"}
City(reading) == IF reading = "dry_mist" THEN "Paris" ELSE "London"
Temperature(reading) == CASE reading = "hot_clear" -> 32 [] reading = "mild_rain" -> 18
                          [] reading = "warm_storm" -> 28 [] reading = "dry_mist" -> 33
                          [] reading = "cool_clear" -> 12
Humidity(reading) == CASE reading = "hot_clear" -> 40 [] reading = "mild_rain" -> 85
                       [] reading = "warm_storm" -> 75 [] reading = "dry_mist" -> 30
                       [] reading = "cool_clear" -> 50
WindSpeed(reading) == CASE reading = "hot_clear" -> 5 [] reading = "mild_rain" -> 12
                        [] reading = "warm_storm" -> 30 [] reading = "dry_mist" -> 0
                        [] reading = "cool_clear" -> 3
Description(reading) == CASE reading = "hot_clear" -> ClearSky
                          [] reading = "mild_rain" -> LightRain
                          [] reading = "warm_storm" -> Thunderstorm
                          [] reading = "dry_mist" -> Mist
                          [] reading = "cool_clear" -> ClearSkyCaps
WeatherScore(reading) ==
  CalculateWeatherScore(Temperature(reading), Humidity(reading), Description(reading))

\* str.lower() on the city names of the model
LowerWord(w) == CASE w = "London" -> "london" [] w = "LONDON" -> "london"
                  [] w = "Paris" -> "paris" [] OTHER -> w

\* values of conditions and fields: a float, an int or a str; s is what str()
\* gives
FloatV(n) == [t |-> "num", n |-> n, s |-> Digits(n) \o <<".", "0">>]
IntV(n) == [t |-> "num", n |-> n, s |-> Digits(n)]
StrV(str) == [t |-> "str", n |-> 0, s |-> str]

Bool(b) == IF b THEN "true" ELSE "false"

EvaluateNoRaise(condition, reading, field_value) == "false"

\* float(field_value) <op> float(condition.value): float() of a str that is no
\* numeral raises ValueError (the strs of the model are none)
EvaluateNumeric(condition, reading, field_value) ==
  IF field_value.t # "num" \/ condition.value.t # "num" THEN "raise"
  ELSE CASE condition.operator = ">" -> Bool(field_value.n > condition.value.n)
         [] condition.operator = "<" -> Bool(field_value.n < condition.value.n)
         [] condition.operator = ">=" -> Bool(field_value.n >= condition.value.n)
         [] condition.operator = "<=" -> Bool(field_value.n <= condition.value.n)

\* evaluate_condition: "true", "false", or "raise"
EvaluateCondition(condition, reading) ==
  IF condition.field \notin {"temperature", "humidity", "wind_speed", "description",
                             "weather_score"}
  THEN "false"
  ELSE
    LET field_value ==
          CASE condition.field = "temperature" -> FloatV(Temperature(reading))
            [] condition.field = "humidity" -> IntV(Humidity(reading))
            [] condition.field = "wind_speed" -> FloatV(WindSpeed(reading))
            [] condition.field = "description" -> StrV(Lower(Description(reading)))
            [] condition.field = "weather_score" -> IntV(WeatherScore(reading))
    IN IF condition.operator \in {">", "<", ">=", "<="}
       THEN EvaluateNumeric(condition, reading, field_value)
       ELSE IF condition.operator = "==" THEN Bool(field_value.s = condition.value.s)
       ELSE IF condition.operator = "contains"
       THEN Bool(Contains(Lower(condition.value.s), Lower(field_value.s)))
       ELSE "false"

Hot == [field |-> "temperature", operator |-> ">", value |-> FloatV(30)]
Clear == [field |-> "description", operator |-> "contains", value |-> StrV(<<"C", "l", "e", "a", "r">>)]
DescriptionAbove == [field |-> "description", operator |-> ">", value |-> FloatV(30)]

\* the subscriptions submitted on the request path
RequestConfigs ==
  {[id |-> NoneStr, name |-> "alert", callback_url |-> "https://cb", city |-> c[1],
    conditions |-> c[2], is_active |-> TRUE, created_at |-> 0]
     : c \in {<<"LONDON", <<Hot, Clear>>>>, <<"London", <<DescriptionAbove>>>>}}

\* credentials.credentials as the api_key string of the webhook store
KeyChars(credential) == <<credential>>

\* check_and_trigger_webhooks: matching_webhooks
MatchingWebhooks(db, reading, api_key) ==
  LET Match(item) == /\ IsPrefix(api_key \o <<":">>, item.key)
                     /\ item.webhook.is_active
                     /\ LowerWord(item.webhook.city) = LowerWord(City(reading))
      sel == SelectSeq(db, Match)
  IN [i \in 1..Len(sel) |-> sel[i].webhook]

\* the (webhook, condition) pairs in the order the two loops visit them
RECURSIVE LoopPairs(_)
LoopPairs(webhooks) ==
  IF webhooks = <<>> THEN <<>>
  ELSE [i \in 1..Len(Head(webhooks).conditions) |->
          [webhook_id |-> Head(webhooks).id, condition |-> Head(webhooks).conditions[i]]]
       \o LoopPairs(Tail(webhooks))

\* the loops of check_and_trigger_webhooks: the tasks created, and whether an
\* evaluation raised (the tasks created before it stay created)
RECURSIVE TriggerLoop(_, _, _)
TriggerLoop(pairs, reading, created) ==
  IF pairs = <<>> THEN [raised |-> FALSE, tasks |-> created]
  ELSE LET met == EvaluateCondition(Head(pairs).condition, reading) IN
       IF met = "raise" THEN [raised |-> TRUE, tasks |-> created]
       ELSE TriggerLoop(Tail(pairs), reading,
                        IF met = "true" THEN Append(created, Head(pairs)) ELSE created)

CheckAndTriggerWebhooks(db, reading, api_key) ==
  TriggerLoop(LoopPairs(MatchingWebhooks(db, reading, api_key)), reading, <<>>)

NoBody == None

\* the bearer credentials of the request path
Callers == {DemoKey, "invalid_key"}

\* a request: where its handler is ("fetching", "closing" or "done"), its inputs, its response,
\* and as history whether it called the provider and when it was answered
Request(pc, credential, q, status, body, fetched, finished) ==
  [pc |-> pc, credential |-> credential, query |-> q, status |-> status, body |-> body,
   fetched |-> fetched, finished |-> finished]

\* the subscription stores the requests of a run find: none, or one subscription
\* that create_webhook stored for the demo key before the run
RequestStores ==
  {<<>>} \cup {CreateStore(<<>>, w, KeyChars(DemoKey), <<UuidChars[1]>>, 0) : w \in RequestConfigs}

CurrentCacheWriteAsCurrent(cache, t, params, data) == SetStore(cache, t, "current", params, data)

\* get_current_weather: weather_cache.set("current_weather", cache_params, enhanced_data)
CurrentCacheWrite(cache, t, params, data) == SetStore(cache, t, "current_weather", params, data)

\* get_current_weather up to its await on the provider: verification, the cache
\* lookup and, on a hit, the response
StartCurrent(credential, q) ==
  /\ Len(reqs) < MaxRequests
  /\ API_KEYS_DB' = VerifyStore(API_KEYS_DB, now, credential)
  /\ LET status == VerifyStatus(API_KEYS_DB, now, credential)
         cache_params == CacheKeyForWeather(q)
         cached_data == GetReturn(CACHE, now, "current_weather", cache_params)
     IN IF status # 200
        THEN /\ reqs' = Append(reqs, Request("done", credential, q, status, NoBody,
                                             FALSE, now))
             /\ UNCHANGED <<CACHE, cgets>>
        ELSE /\ CACHE' = GetStore(CACHE, now, "current_weather", cache_params)
             /\ cgets' = CountGet(cgets, DOMAIN CACHE',
                                  GenerateKey("current_weather", cache_params), cached_data)
             /\ reqs' = Append(reqs,
                  IF cached_data # None
                  THEN Request("done", credential, q, 200, cached_data, FALSE, now)
                  ELSE Request("fetching", credential, q, 0, NoBody, TRUE, NoTime))
  /\ UNCHANGED <<now, ticks, ccall, cret, cother, deliveries>>
  /\ UNCHANGED <<webhookVars, batchVars>>

\* the provider answers request r: get_current_weather from the answer to the end
\* of the body of its "async with httpx.AsyncClient" block
ProviderResponds(r, answer, reading) ==
  /\ r \in DOMAIN reqs
  /\ reqs[r].pc = "fetching"
  /\ LET trigger == CheckAndTriggerWebhooks(WEBHOOKS_DB, reading, KeyChars(reqs[r].credential))
         status == CASE answer = "http_error" -> 400
                     [] answer \in {"timeout", "malformed"} -> 500
                     [] answer = "ok" -> IF trigger.raised THEN 500 ELSE 200
     IN /\ reqs' = [reqs EXCEPT ![r].pc = "closing", ![r].status = status,
                                ![r].body = IF status = 200 THEN reading ELSE NoBody]
        /\ IF answer = "ok"
           THEN /\ CACHE' = CurrentCacheWrite(CACHE, now, CacheKeyForWeather(reqs[r].query),
                                              reading)
                /\ cgets' = CountSet(cgets, DOMAIN CACHE',
                                     GenerateKey("current_weather",
                                                 CacheKeyForWeather(reqs[r].query)))
                /\ deliveries' = deliveries \o trigger.tasks
           ELSE UNCHANGED <<CACHE, cgets, deliveries>>
  /\ UNCHANGED <<now, ticks, ccall, cret, cother>>
  /\ UNCHANGED <<webhookVars, authVars, batchVars>>

CanRespondAfterDeliveries(req, pending) == req.pc = "closing" /\ pending = <<>>

\* what the handler waits for once check_and_trigger_webhooks has returned: the
\* send_webhook tasks were created with asyncio.create_task and are not awaited
CanRespond(req, pending) == req.pc = "closing"

\* the "async with" block of request r is left (the provider's client is closed,
\* which may suspend the handler) and the response is sent
Respond(r) ==
  /\ r \in DOMAIN reqs
  /\ CanRespond(reqs[r], deliveries)
  /\ reqs' = [reqs EXCEPT ![r].pc = "done", ![r].finished = now]
  /\ UNCHANGED <<deliveries, cacheVars, webhookVars, authVars, batchVars>>

\* some handler is leaving its "async with" block: closing the client yields to the
\* event loop without waiting on the network, so the clock of the model (steps of a
\* minute or more) does not advance meanwhile
Closing == \E r \in DOMAIN reqs : reqs[r].pc = "closing"

\* the oldest send_webhook task runs (the event loop starts tasks in the order of
\* their creation): its POST is made, its outcome is dropped
Deliver ==
  /\ deliveries # <<>>
  /\ deliveries' = Tail(deliveries)
  /\ UNCHANGED <<reqs, cacheVars, webhookVars, authVars, batchVars>>

\* the steps of handlers and tasks
RequestNext ==
  \/ \E c \in Callers, q \in Queries : StartCurrent(c, q)
  \/ \E r \in 1..MaxRequests, a \in ProviderAnswers, w \in Readings : ProviderResponds(r, a, w)
  \/ \E r \in 1..MaxRequests : Respond(r)
  \/ Deliver

Next ==
  \/ RequestNext
  \/ \E d \in Steps : ~Closing /\ Tick(d)
                        /\ UNCHANGED <<webhookVars, authVars, batchVars, requestVars>>

\* DELETE /webhooks/{webhook_id}: verification, then delete_webhook; a run holds at
\* most one accepted call of it
DeleteWebhookSubscription(credential, webhook_id) ==
  /\ wcall = NoWCall
  /\ API_KEYS_DB' = VerifyStore(API_KEYS_DB, now, credential)
  /\ IF VerifyStatus(API_KEYS_DB, now, credential) = 200
     THEN DeleteWebhook(webhook_id, KeyChars(credential))
     ELSE UNCHANGED webhookVars
  /\ UNCHANGED <<cacheVars, batchVars, requestVars>>

\* current-weather requests, deliveries and deletions interleaved
DeleteNext ==
  \/ Next
  \/ \E c \in Callers, id \in Uuids : DeleteWebhookSubscription(c, id)

\* no function applied
NoInput == [f |-> "none"]
NoOutput == [f |-> "none"]

(***************************************************************************)
(* auth.py: the key store under verify_api_key, deactivate_api_key and the clock.*)
(***************************************************************************)

MaxVerifies == 3
MaxAuthTicks == 2

\* the clock advances of the key store's runs: half a day, a day
DaySteps == {SecondsPerDay \div 2, SecondsPerDay}

\* the numbers of consecutive calls of verify_api_key one step makes
Bursts == {1, DailyLimit("basic") - 1}

\* n consecutive calls verify_api_key(api_key) at time t: the store they leave,
\* how many were accepted and the status of the last (the calls are taken half
\* by half, the first half evaluated before the second, to keep the evaluation
\* shallow)
RECURSIVE VerifyTimes(_, _, _, _)
VerifyTimes(db, t, api_key, n) ==
  IF n = 0 THEN [db |-> db, accepted |-> 0, status |-> 0]
  ELSE IF n = 1
  THEN [db |-> VerifyStore(db, t, api_key),
        accepted |-> IF VerifyStatus(db, t, api_key) = 200 THEN 1 ELSE 0,
        status |-> VerifyStatus(db, t, api_key)]
  ELSE LET first == VerifyTimes(db, t, api_key, n \div 2) IN
       IF first.accepted < 0 THEN first
       ELSE LET rest == VerifyTimes(first.db, t, api_key, n - (n \div 2)) IN
            [db |-> rest.db, accepted |-> first.accepted + rest.accepted,
             status |-> rest.status]

\* history: the bursts of verify calls so far
Calls(out) == IF out = NoOutput THEN <<>> ELSE out.calls

VerifyApiKey(api_key, n) ==
  /\ Len(Calls(fout)) < MaxVerifies
  /\ LET v == VerifyTimes(API_KEYS_DB, now, api_key, n) IN
     /\ API_KEYS_DB' = v.db
     /\ fout' = [f |-> "verify",
                 calls |-> Append(Calls(fout),
                                  [api_key |-> api_key, t |-> now, n |-> n,
                                   accepted |-> v.accepted, status |-> v.status])]
  /\ UNCHANGED <<fin, cacheVars, webhookVars, batchVars, requestVars>>

\* deactivate_api_key
DeactivateStore(db, api_key) ==
  IF api_key \in DOMAIN db THEN [db EXCEPT ![api_key].is_active = FALSE] ELSE db

DeactivateApiKey(api_key) ==
  /\ api_key \in DOMAIN API_KEYS_DB
  /\ API_KEYS_DB[api_key].is_active
  /\ API_KEYS_DB' = DeactivateStore(API_KEYS_DB, api_key)
  /\ UNCHANGED <<functionVars, cacheVars, webhookVars, batchVars, requestVars>>

AuthTick(d) ==
  /\ ticks < MaxAuthTicks
  /\ now' = now + d
  /\ ticks' = ticks + 1
  /\ UNCHANGED <<CACHE, ccall, cret, cother, cgets>>
  /\ UNCHANGED <<functionVars, webhookVars, authVars, batchVars, requestVars>>

AuthNext ==
  \/ \E c \in Credentials, n \in Bursts : VerifyApiKey(c, n)
  \/ \E c \in Credentials : DeactivateApiKey(c)
  \/ \E d \in DaySteps : AuthTick(d)

\* the current-weather request path with every kind of credential, the key being
\* deactivated at any moment
RejectNext ==
  \/ RequestNext /\ UNCHANGED functionVars
  \/ \E q \in Queries : StartCurrent("", q) /\ UNCHANGED functionVars
  \/ \E c \in Credentials : DeactivateApiKey(c)

(***************************************************************************)
(* check_and_trigger_webhooks applied to stores that create_webhook built. *)
(***************************************************************************)

Cold == [field |-> "temperature", operator |-> "<", value |-> FloatV(0)]

TriggerReadings == {"hot_clear", "mild_rain", "dry_mist"}
TriggerKeys == {<<"k">>, <<"j">>}
TriggerConditions == {<<>>, <<Hot>>, <<Cold>>, <<Hot, Clear>>, <<Cold, Hot>>,
                      <<DescriptionAbove>>}
TriggerConfigs ==
  {[id |-> NoneStr, name |-> "alert", callback_url |-> "https://cb", city |-> c,
    conditions |-> cs, is_active |-> a, created_at |-> 0]
     : c \in {"London", "LONDON", "Paris"}, cs \in TriggerConditions, a \in BOOLEAN}

\* the create_webhook calls that built the store: who called, and with what
Creations == UNION {[1..n -> [owner : Owners, config : TriggerConfigs]] : n \in 1..2}

\* the store after the calls, the n-th call drawing the n-th uuid
RECURSIVE BuiltStore(_)
BuiltStore(creations) ==
  IF creations = <<>> THEN <<>>
  ELSE LET n == Len(creations) IN
       CreateStore(BuiltStore(SubSeq(creations, 1, n - 1)), creations[n].config,
                   creations[n].owner, <<UuidChars[n]>>, 0)

TriggerInputs == {[f |-> "trigger", creations |-> cr, reading |-> r, api_key |-> k]
                    : cr \in Creations, r \in TriggerReadings, k \in TriggerKeys}

Trigger ==
  /\ fin.f = "trigger"
  /\ fout = NoOutput
  /\ LET db == BuiltStore(fin.creations)
         trigger == CheckAndTriggerWebhooks(db, fin.reading, fin.api_key)
     IN fout' = [f |-> "trigger", raised |-> trigger.raised, tasks |-> trigger.tasks,
                 selected |-> MatchingWebhooks(db, fin.reading, fin.api_key)]
  /\ UNCHANGED fin

(***************************************************************************)
(* _calculate_weather_score applied to the readings of the model.          *)
(***************************************************************************)

ScoreTemperatures == {0 - 5, 9, 10, 14, 15, 17, 18, 22, 25, 26, 30, 31, 35, 36, 45}
ScoreHumidities == {0, 29, 30, 39, 40, 50, 60, 61, 70, 71, 100}
ScoreDescriptions ==
  Descriptions \cup {<<"s", "c", "a", "t", "t", "e", "r", "e", "d", " ", "c", "l", "o", "u", "d", "s">>, <<"b", "r", "o", "k", "e", "n", " ", "c", "l", "o", "u", "d", "s">>, <<"h", "e", "a", "v", "y", " ", "i", "n", "t", "e", "n", "s", "i", "t", "y", " ", "r", "a", "i", "n">>,
                     <<"t", "h", "u", "n", "d", "e", "r", "s", "t", "o", "r", "m", " ", "w", "i", "t", "h", " ", "l", "i", "g", "h", "t", " ", "r", "a", "i", "n">>}
ScoreInputs == {[f |-> "score", temp |-> t, humidity |-> h, description |-> d]
                  : t \in ScoreTemperatures, h \in ScoreHumidities, d \in ScoreDescriptions}

Score ==
  /\ fin.f = "score"
  /\ fout = NoOutput
  /\ fout' = [f |-> "score",
              value |-> CalculateWeatherScore(fin.temp, fin.humidity, fin.description)]
  /\ UNCHANGED fin

(***************************************************************************)
(* POST /weather/historical of app/main.py: its validation of the dates.   *)
(***************************************************************************)

\* int() of a numeral
DigitValue(c) == (CHOOSE i \in 1..10 : DigitChars[i] = c) - 1
IsDigits(str) == str # <<>> /\ \A i \in 1..Len(str) : \E d \in 1..10 : DigitChars[d] = str[i]
RECURSIVE ToInt(_)
ToInt(str) == IF str = <<>> THEN 0
              ELSE 10 * ToInt(SubSeq(str, 1, Len(str) - 1)) + DigitValue(str[Len(str)])

IsLeap(y) == (y % 4 = 0 /\ y % 100 # 0) \/ y % 400 = 0
DaysInMonth(y, m) == IF m = 2 THEN (IF IsLeap(y) THEN 29 ELSE 28)
                     ELSE IF m \in {4, 6, 9, 11} THEN 30 ELSE 31
RECURSIVE DaysBeforeMonth(_, _)
DaysBeforeMonth(y, m) == IF m = 1 THEN 0
                         ELSE DaysBeforeMonth(y, m - 1) + DaysInMonth(y, m - 1)

\* date.toordinal(): the number of the day, 0001-01-01 being day 1
Ordinal(y, m, d) ==
  365 * (y - 1) + ((y - 1) \div 4) - ((y - 1) \div 100) + ((y - 1) \div 400)
  + DaysBeforeMonth(y, m) + d

\* what strptime gives: a date (as its day number), or ValueError
NoDate == [ok |-> FALSE, ordinal |-> 0]

\* datetime.strptime(str, "%Y-%m-%d"): %Y takes four digits, %m and %d one or two
Strptime(str) ==
  LET dashes == {i \in 1..Len(str) : str[i] = "-"} IN
  IF Cardinality(dashes) # 2 THEN NoDate
  ELSE LET a == CHOOSE i \in dashes : \A j \in dashes : i <= j
           b == CHOOSE i \in dashes : \A j \in dashes : j <= i
           ys == SubSeq(str, 1, a - 1)
           ms == SubSeq(str, a + 1, b - 1)
           ds == SubSeq(str, b + 1, Len(str))
       IN IF ~(IsDigits(ys) /\ Len(ys) = 4 /\ IsDigits(ms) /\ Len(ms) \in {1, 2}
               /\ IsDigits(ds) /\ Len(ds) \in {1, 2})
          THEN NoDate
          ELSE IF ToInt(ys) < 1 \/ ToInt(ms) \notin 1..12
                  \/ ToInt(ds) \notin 1..DaysInMonth(ToInt(ys), ToInt(ms))
          THEN NoDate
          ELSE [ok |-> TRUE, ordinal |-> Ordinal(ToInt(ys), ToInt(ms), ToInt(ds))]

\* the try block of get_historical_weather up to the fetch: the exception it
\* raises, or none
HistoricalTry(start_date, end_date, today) ==
  LET start == Strptime(start_date)
      end == Strptime(end_date)
  IN IF ~start.ok \/ ~end.ok THEN [type |-> "ValueError", status |-> 0, detail |-> "format"]
     ELSE IF start.ordinal > end.ordinal
     THEN [type |-> "HTTPException", status |-> 400, detail |-> "Start date must be before end date"]
     ELSE IF end.ordinal - start.ordinal > 365
     THEN [type |-> "HTTPException", status |-> 400, detail |-> "Maximum historical period is 365 days"]
     ELSE IF end.ordinal > today
     THEN [type |-> "HTTPException", status |-> 400, detail |-> "End date cannot be in the future"]
     ELSE [type |-> "none", status |-> 0, detail |-> ""]

\* the except clauses of get_historical_weather, in their order: ValueError, then
\* Exception, which HTTPException is a subclass of
HistoricalExcept(exc) ==
  IF exc.type = "ValueError"
  THEN [status |-> 400, detail |-> "Invalid date format. Use YYYY-MM-DD"]
  ELSE [status |-> 500, detail |-> "Historical data fetch failed"]

HistoricalCall(pc, auth, status, detail, fetched) ==
  [f |-> "historical", pc |-> pc, auth |-> auth, status |-> status, detail |-> detail,
   fetched |-> fetched]

\* get_historical_weather up to its await on fetch_historical_weather
GetHistoricalWeather ==
  /\ fin.f = "historical"
  /\ fout = NoOutput
  /\ API_KEYS_DB' = VerifyStore(API_KEYS_DB, now, fin.credential)
  /\ LET auth == VerifyStatus(API_KEYS_DB, now, fin.credential)
         exc == HistoricalTry(fin.start_date, fin.end_date, fin.today)
     IN fout' = IF auth # 200 THEN HistoricalCall("done", auth, auth, "", FALSE)
                ELSE IF exc.type # "none"
                THEN HistoricalCall("done", auth, HistoricalExcept(exc).status,
                                    HistoricalExcept(exc).detail, FALSE)
                ELSE HistoricalCall("fetching", auth, 0, "", TRUE)
  /\ UNCHANGED fin

\* fetch_historical_weather returns or raises
HistoricalFetched(answer) ==
  /\ fin.f = "historical"
  /\ fout # NoOutput
  /\ fout.pc = "fetching"
  /\ fout' = IF answer = "ok"
             THEN [fout EXCEPT !.pc = "done", !.status = 200]
             ELSE [fout EXCEPT !.pc = "done", !.status = 500,
                               !.detail = "Historical data fetch failed"]
  /\ UNCHANGED <<fin, API_KEYS_DB>>

HistoricalDates == {<<"2", "0", "2", "4", "-", "0", "1", "-", "0", "1">>, <<"2", "0", "2", "4", "-", "0", "1", "-", "3", "1">>, <<"2", "0", "2", "5", "-", "0", "1", "-", "0", "1">>, <<"2", "0", "3", "0", "-", "0", "1", "-", "0", "1">>,
                    <<"0", "1", "/", "3", "1", "/", "2", "0", "2", "4">>, <<"2", "0", "2", "4", "-", "1", "3", "-", "0", "1">>, <<"2", "0", "2", "4", "-", "1", "-", "5">>}
\* datetime.now(), as its day number
HistoricalTodays == {Ordinal(2024, 6, 1), Ordinal(2026, 11, 3)}
HistoricalInputs ==
  {[f |-> "historical", credential |-> c, start_date |-> a, end_date |-> b, today |-> t]
     : c \in Callers, a \in HistoricalDates, b \in HistoricalDates, t \in HistoricalTodays}

HistoricalNext ==
  \/ GetHistoricalWeather
  \/ \E a \in ProviderAnswers : HistoricalFetched(a)

(***************************************************************************)
(* evaluate_condition applied to the conditions and readings of the model. *)
(***************************************************************************)

EvalReadings == {"hot_clear", "mild_rain", "warm_storm", "dry_mist", "cool_clear"}
EvalFields == {"temperature", "humidity", "wind_speed", "description", "weather_score",
               "pressure"}
EvalOperators == {">", "<", ">=", "<=", "==", "contains", "!="}
EvalValues == {FloatV(28), FloatV(30), FloatV(85), StrV(<<"R", "A", "I", "N">>), StrV(<<"c", "l", "e", "a", "r", " ", "s", "k", "y">>),
               StrV(<<"2">>), StrV(ClearSkyCaps), IntV(12), FloatV(12)}
EvalConditions == [field : EvalFields, operator : EvalOperators, value : EvalValues]
EvalInputs == {[f |-> "evaluate", condition |-> c, reading |-> r]
                 : c \in EvalConditions, r \in EvalReadings}

Evaluate ==
  /\ fin.f = "evaluate"
  /\ fout = NoOutput
  /\ fout' = [f |-> "evaluate", value |-> EvaluateCondition(fin.condition, fin.reading)]
  /\ UNCHANGED fin

(***************************************************************************)
(* The state when the application has been loaded: CACHE = {}, the key     *)
(* store of auth.py, no batch and no request; `others` are the third cache *)
(* queries and `stores` the subscription stores a run may start with.      *)
(***************************************************************************)
Init(others, stores, inputs) ==
  /\ CACHE = <<>>
  /\ now = 0
  /\ ticks = 0
  /\ ccall = NoCall
  /\ cret = NoRet
  /\ cother \in others
  /\ cgets = <<>>
  /\ WEBHOOKS_DB \in stores
  /\ issued = StoredIds(WEBHOOKS_DB)
  /\ ownerOf = [u \in StoredIds(WEBHOOKS_DB) |-> KeyChars(DemoKey)]
  /\ wcall = NoWCall
  /\ wret = NoWRet
  /\ deleted = {}
  /\ API_KEYS_DB = [k \in {DemoKey} |->
                      [tier |-> "basic", is_active |-> TRUE,
                       requests_count |-> 0, last_used |-> NoTime]]
  /\ breq = NoBatch
  /\ bpc = "idle"
  /\ bstatus = 0
  /\ btasks = <<>>
  /\ gathered = <<>>
  /\ gresp = <<>>
  /\ overtook = FALSE
  /\ bout = NoResponse
  /\ reqs = <<>>
  /\ deliveries = <<>>
  /\ fin \in inputs
  /\ fout = NoOutput

Spec ==
  Init({<<"forecast", CacheLondon>>}, RequestStores, {NoInput})
  /\ [][Next /\ UNCHANGED functionVars]_vars

\* the request path with its scheduling: a fetch that is not answered ends by the
\* 10 s timeout of the provider's client, and the event loop resumes a handler
\* that can go on; nothing is assumed about send_webhook tasks ever running. The
\* clock stands still: no step of the request path waits for it
SpecLive ==
  Init({<<"forecast", CacheLondon>>}, RequestStores, {NoInput})
  /\ [][RequestNext /\ UNCHANGED functionVars]_vars
  /\ \A r \in 1..MaxRequests :
        /\ WF_vars((\E w \in Readings : ProviderResponds(r, "timeout", w))
                    /\ UNCHANGED functionVars)
        /\ WF_vars(Respond(r) /\ UNCHANGED functionVars)

SpecDelete ==
  Init({<<"forecast", CacheLondon>>}, RequestStores, {NoInput})
  /\ [][DeleteNext /\ UNCHANGED functionVars]_vars

SpecAuth ==
  Init({<<"forecast", CacheLondon>>}, {<<>>}, {NoInput})
  /\ [][AuthNext]_vars

SpecReject ==
  Init({<<"forecast", CacheLondon>>}, RequestStores, {NoInput})
  /\ [][RejectNext]_vars

SpecBatch ==
  Init({<<"forecast", CacheLondon>>}, {<<>>}, {NoInput})
  /\ [][BatchNext /\ UNCHANGED <<cacheVars, webhookVars, requestVars, functionVars>>]_vars

SpecProcess ==
  Init({<<"forecast", CacheLondon>>}, {<<>>}, {NoInput})
  /\ [][ProcessNext /\ UNCHANGED <<cacheVars, webhookVars, requestVars, functionVars>>]_vars

SpecWebhook ==
  Init({<<"forecast", CacheLondon>>}, {<<>>}, {NoInput})
  /\ [][WebhookNext /\ UNCHANGED <<cacheVars, authVars, batchVars, requestVars, functionVars>>]_vars


SpecCache ==
  Init(CacheOthers, {<<>>}, {NoInput})
  /\ [][CacheNext /\ UNCHANGED <<webhookVars, authVars, batchVars, requestVars>>
                  /\ UNCHANGED functionVars]_vars

SpecEval ==
  Init({<<"forecast", CacheLondon>>}, {<<>>}, EvalInputs)
  /\ [][Evaluate /\ UNCHANGED <<cacheVars, webhookVars, authVars, batchVars, requestVars>>]_vars

SpecTrigger ==
  Init({<<"forecast", CacheLondon>>}, {<<>>}, TriggerInputs)
  /\ [][Trigger /\ UNCHANGED <<cacheVars, webhookVars, authVars, batchVars, requestVars>>]_vars

SpecScore ==
  Init({<<"forecast", CacheLondon>>}, {<<>>}, ScoreInputs)
  /\ [][Score /\ UNCHANGED <<cacheVars, webhookVars, authVars, batchVars, requestVars>>]_vars

SpecHistorical ==
  Init({<<"forecast", CacheLondon>>}, {<<>>}, HistoricalInputs)
  /\ [][HistoricalNext /\ UNCHANGED <<cacheVars, webhookVars, batchVars, requestVars>>]_vars

(***************************************************************************)
(* Claims about condition evaluation.                                      *)
(***************************************************************************)

NumericOperators == {">", "<", ">=", "<="}
NumericFields == {"temperature", "humidity", "wind_speed", "weather_score"}
Evaluated == fin.f = "evaluate" /\ fout # NoOutput

\* the number a reading carries under a numeric field
ReadingNumber(field, reading) ==
  CASE field = "temperature" -> Temperature(reading)
    [] field = "humidity" -> Humidity(reading)
    [] field = "wind_speed" -> WindSpeed(reading)
    [] field = "weather_score" -> WeatherScore(reading)

\* the string form of the field of a reading
ReadingString(field, reading) ==
  CASE field = "temperature" -> Digits(Temperature(reading)) \o <<".", "0">>
    [] field = "humidity" -> Digits(Humidity(reading))
    [] field = "wind_speed" -> Digits(WindSpeed(reading)) \o <<".", "0">>
    [] field = "weather_score" -> Digits(WeatherScore(reading))
    [] field = "description" -> Description(reading)

Compare(a, op, b) == CASE op = ">" -> a > b [] op = "<" -> a < b
                       [] op = ">=" -> a >= b [] op = "<=" -> a <= b

\* C12: for every condition with operator in {>, <, >=, <=} and every reading,
\* evaluate returns a boolean and never raises, and returns false when the named
\* field is non-numeric (description).
C12_NumericTotal ==
  (Evaluated /\ fin.condition.operator \in NumericOperators) =>
     /\ fout.value \in {"true", "false"}
     /\ (fin.condition.field = "description" => fout.value = "false")

\* C13: for a numeric field, a numeric operator and a numeric value, evaluate equals
\* (reading.f op v), so temperature > 30 is true for 32 and false for 28; for
\* contains, evaluate is true exactly when the value, compared case-insensitively,
\* is a substring of the string form of the field.
C13_EvaluationResults ==
  Evaluated =>
     /\ (fin.condition.field \in NumericFields
         /\ fin.condition.operator \in NumericOperators
         /\ fin.condition.value.t = "num") =>
          fout.value = Bool(Compare(ReadingNumber(fin.condition.field, fin.reading),
                                    fin.condition.operator, fin.condition.value.n))
     /\ (fin.condition.field \in NumericFields \cup {"description"}
         /\ fin.condition.operator = "contains") =>
          (fout.value = "true" <=>
             \E i \in 1..Len(ReadingString(fin.condition.field, fin.reading)) :
                \E j \in i..Len(ReadingString(fin.condition.field, fin.reading)) :
                   Lower(SubSeq(ReadingString(fin.condition.field, fin.reading), i, j))
                     = Lower(fin.condition.value.s))
     /\ (fin.condition = Hot /\ fin.reading = "hot_clear") => fout.value = "true"
     /\ (fin.condition = [Hot EXCEPT !.value = FloatV(28)] /\ fin.reading = "mild_rain")
          => fout.value = "false"

C13_Witness ==
  /\ Evaluated
  /\ fin.condition = [field |-> "description", operator |-> "contains",
                      value |-> StrV(<<"R", "A", "I", "N">>)]
  /\ Description(fin.reading) = LightRain
  /\ fout.value = "true"

\* C24: for every field of the reading and every configured value, evaluate with
\* operator == is true exactly when the string form of the field value, as the
\* reading has it, equals the string form of the configured value, character by
\* character with no case folding of either side.
C24_EqualityOperator ==
  (Evaluated /\ fin.condition.operator = "=="
   /\ fin.condition.field \in NumericFields \cup {"description"}) =>
     fout.value = Bool(ReadingString(fin.condition.field, fin.reading)
                         = fin.condition.value.s)

(***************************************************************************)
(* Claims about check_and_trigger_webhooks.                                *)
(***************************************************************************)

Triggered == fin.f = "trigger" /\ fout # NoOutput

\* the create_webhook call that issued the id
CreationOf(webhook_id) ==
  fin.creations[CHOOSE n \in 1..Len(fin.creations) : <<UuidChars[n]>> = webhook_id]

\* the ids the call evaluated or dispatched
TouchedIds == {fout.selected[i].id : i \in 1..Len(fout.selected)}
                \cup {fout.tasks[i].webhook_id : i \in 1..Len(fout.tasks)}

TasksFor(webhook_id) == {i \in 1..Len(fout.tasks) : fout.tasks[i].webhook_id = webhook_id}

\* C14: checkAndTrigger(reading, owner) evaluates and dispatches only subscriptions
\* created by exactly that owner, Active, and configured for the reading's city
\* ignoring case.
C14_Selection ==
  Triggered =>
    \A id \in TouchedIds :
       /\ CreationOf(id).owner = fin.api_key
       /\ CreationOf(id).config.is_active
       /\ LowerWord(CreationOf(id).config.city) = LowerWord(City(fin.reading))

\* C15: a selected subscription has a delivery dispatched if and only if at least
\* one of its conditions evaluates true against the reading.
C15_OrSemantics ==
  Triggered =>
    \A i \in 1..Len(fout.selected) :
       (TasksFor(fout.selected[i].id) # {})
         <=> (\E c \in Range(fout.selected[i].conditions) :
                 EvaluateCondition(c, fin.reading) = "true")

\* C16: one call of checkAndTrigger dispatches at most one delivery per selected
\* subscription, built for the first matching condition only.
C16_AtMostOneDelivery ==
  Triggered =>
    \A i \in 1..Len(fout.selected) : Cardinality(TasksFor(fout.selected[i].id)) <= 1

(***************************************************************************)
(* Claims about authentication.                                            *)
(***************************************************************************)

\* the credential is empty, not in the key store, or of an inactive key
Unauthorized(db, c) == c = "" \/ c \notin DOMAIN db \/ ~db[c].is_active

C25_SweepAgreesWithGet ==
  [][(ccall'.op = "clear_expired" /\ <<CACHE, ccall, cret>>' # <<CACHE, ccall, cret>>) =>
        /\ DOMAIN CACHE' = {k \in DOMAIN CACHE : now - CACHE[k].timestamp < TTL}
        /\ cret'.count = Cardinality(DOMAIN CACHE \ DOMAIN CACHE')
        /\ \A k \in DOMAIN CACHE' : CACHE'[k] = CACHE[k]
        /\ \A k \in DOMAIN CACHE' : now' - CACHE'[k].timestamp < TTL]_vars

\* the requests of the key of call i that verify_api_key accepted in the 24 hours
\* up to call i's first rejection
AcceptedWithinDay(calls, i) ==
  SumOver({j \in 1..i : /\ calls[j].api_key = calls[i].api_key
                        /\ calls[j].t >= calls[i].t - SecondsPerDay},
          [j \in 1..i |-> calls[j].accepted])

\* C30: verify_api_key rejects an active, known key with 429 only when at least
\* the daily limit of its tier of requests from that key were accepted within the
\* preceding 24 hours (requests accepted on earlier days do not count), and each
\* accepted request adds exactly one to the key's request counter.
C30_DailyRateLimit ==
  /\ \A i \in DOMAIN Calls(fout) :
        (Calls(fout)[i].status = 429 /\ Calls(fout)[i].accepted < Calls(fout)[i].n) =>
           AcceptedWithinDay(Calls(fout), i) >= DailyLimit(API_KEYS_DB[Calls(fout)[i].api_key].tier)
  /\ \A k \in DOMAIN API_KEYS_DB :
        API_KEYS_DB[k].requests_count
          = SumOver({j \in DOMAIN Calls(fout) : Calls(fout)[j].api_key = k},
                    [j \in DOMAIN Calls(fout) |-> Calls(fout)[j].accepted])

(***************************************************************************)
(* Claims about the weather score.                                         *)
(***************************************************************************)

Scored == fin.f = "score" /\ fout # NoOutput

\* ideal temperature, ideal humidity and clear sky
IdealReading ==
  /\ 18 <= fin.temp /\ fin.temp <= 25
  /\ 40 <= fin.humidity /\ fin.humidity <= 60
  /\ fin.description = ClearSky

\* outside every temperature band and every humidity band, in a storm
WorstReading ==
  /\ (fin.temp < 10 \/ fin.temp > 35)
  /\ (fin.humidity < 30 \/ fin.humidity > 70)
  /\ fin.description = Thunderstorm

\* the score stays in [0, 100] and the ideal reading scores exactly 100
ScoreInRange ==
  /\ fout.value \in 0..100
  /\ IdealReading =>
       /\ RawWeatherScore(fin.temp, fin.humidity, fin.description) > 100
       /\ fout.value = 100

\* C19 as stated: weatherScore is in [0, 100], the ideal reading returns exactly
\* 100 and the engineered worst-case reading returns exactly 0.
C19_ScoreClampingAsStated ==
  Scored => (ScoreInRange /\ (WorstReading => fout.value = 0))

\* C19, amended: weatherScore is in [0, 100] and the ideal reading, whose raw total
\* exceeds 100, returns exactly 100; no reading scores below 20, which is what the
\* worst-case reading returns.
C19_ScoreClamping ==
  Scored => (ScoreInRange /\ fout.value >= 20 /\ (WorstReading => fout.value = 20))

C19_Witness == Scored /\ IdealReading /\ fout.value = 100

C19_WitnessWorst == Scored /\ WorstReading /\ fout.value = 20

(***************************************************************************)
(* Claims about the webhook store.                                         *)
(***************************************************************************)
\* the stored subscriptions create_webhook made for api_key
CreatedBy(db, api_key) ==
  {db[i].webhook : i \in {j \in 1..Len(db) : ownerOf[db[j].webhook.id] = api_key}}

\* the stored items a step removes
Removed(db, db2) == {db[i] : i \in {j \in 1..Len(db) : db[j] \notin Range(db2)}}

WCalled(op, api_key) == wcall'.op = op /\ wcall'.api_key = api_key

\* C8: delete(x, b) returns true only if b itself created a subscription with id x
\* that is still stored; a delete called by b removes no subscription created by
\* another owner: then it returns false and leaves the store unchanged.
C8_DeleteIsolation ==
  [][\A x \in DeleteIds, b \in Owners :
       (WCalled("delete", b) /\ wcall'.webhook_id = x /\ DeleteWebhook(x, b)) =>
          /\ wret'.ok =>
               \E w \in CreatedBy(WEBHOOKS_DB, b) : w.id = x
          /\ \A item \in Removed(WEBHOOKS_DB, WEBHOOKS_DB') :
               ownerOf[item.webhook.id] = b
          /\ (~ \E w \in CreatedBy(WEBHOOKS_DB, b) : w.id = x)
               => (~wret'.ok /\ WEBHOOKS_DB' = WEBHOOKS_DB)]_vars

\* C9: list(o) returns exactly the subscriptions created with owner o and not yet
\* deleted, whatever characters the owner identities contain.
C9_ListIsolation ==
  \A o \in Owners : Range(GetWebhooks(WEBHOOKS_DB, o)) = CreatedBy(WEBHOOKS_DB, o)

\* C10: create returns an id that no stored subscription has, appends exactly one
\* entry, stored under (owner, id) and carrying that id, and leaves every stored
\* entry as it was; an id supplied in the config is not used.
C10_CreateFresh ==
  [][\A w \in Configs, k \in Owners :
       (WCalled("create", k) /\ wcall'.supplied = w.id /\ CreateWebhook(w, k)) =>
          LET id == wret'.id
              n == Len(WEBHOOKS_DB)
          IN /\ id \notin StoredIds(WEBHOOKS_DB)
             /\ Len(WEBHOOKS_DB') = n + 1
             /\ \A i \in 1..n : WEBHOOKS_DB'[i] = WEBHOOKS_DB[i]
             /\ WEBHOOKS_DB'[n + 1].key = StoreKey(k, id)
             /\ WEBHOOKS_DB'[n + 1].key \notin DictKeys(WEBHOOKS_DB)
             /\ WEBHOOKS_DB'[n + 1].webhook = [w EXCEPT !.id = id, !.created_at = now]
             /\ (w.id \in StoredIds(WEBHOOKS_DB) => id # w.id)]_vars

\* a create whose config supplied the id of a stored subscription has added a second
\* subscription under a different id
C10_Witness ==
  /\ wcall.op = "create"
  /\ Len(WEBHOOKS_DB) >= 2
  /\ wcall.supplied \in {WEBHOOKS_DB[i].webhook.id : i \in 1..(Len(WEBHOOKS_DB) - 1)}
  /\ wret.id = WEBHOOKS_DB[Len(WEBHOOKS_DB)].webhook.id
  /\ wret.id # wcall.supplied

\* C11: every subscription is Active (is_active = true) immediately after create,
\* for every config a caller can submit; and once delete(id, owner) has returned
\* true, that (owner, id) is never again in the store, listed by list(owner) or
\* selected by checkAndTrigger.
C11_CreatedActive ==
  \A w \in Configs, k \in Owners :
     (WCalled("create", k) /\ wcall'.supplied = w.id /\ CreateWebhook(w, k)) =>
        WEBHOOKS_DB'[Len(WEBHOOKS_DB')].webhook.is_active

C11_DeletedIsTerminal ==
  \A d \in deleted :
     /\ StoreKey(d[1], d[2]) \notin DictKeys(WEBHOOKS_DB)
     /\ \A w \in Range(GetWebhooks(WEBHOOKS_DB, d[1])) : w.id # d[2]
     /\ \A r \in Readings :
          \A w \in Range(MatchingWebhooks(WEBHOOKS_DB, r, d[1])) : w.id # d[2]

C11_Lifecycle == [][C11_CreatedActive]_vars /\ [](C11_DeletedIsTerminal)

(***************************************************************************)
(* Claims about the batch orchestrator.                                    *)
(***************************************************************************)
Returned == bpc = "done" /\ bstatus = 200

\* the requests the validation is said to reject
SaidInvalid(req) ==
  \/ Len(req.locations) = 0 \/ Len(req.locations) > 50
  \/ Len(req.endpoints) = 0 \/ Len(req.endpoints) > 3
  \/ \E i \in 1..Len(req.endpoints) : req.endpoints[i] \notin {"current", "forecast"}

\* C4: a verified batch request is rejected with 400, no fetch task started, whenever
\* its locations are empty or more than 50, its endpoints are empty or more than 3,
\* or an endpoint is not current or forecast; every other request reaches the
\* orchestrator.
C4_BatchValidation ==
  (bpc # "idle" /\ bstatus \notin {401, 429}) =>
     IF SaidInvalid(breq)
     THEN bstatus = 400 /\ btasks = <<>> /\ gathered = <<>>
     ELSE bstatus # 400 /\ Len(btasks) = Len(breq.locations) * Len(breq.endpoints)

\* C5: results has length |L|*|E| and results[i*|E| + j] is the outcome of the task
\* for (L[i], E[j]), in every order of completion (positions counted from 1 here).
C5_PositionalIntegrity ==
  Returned =>
     LET L == breq.locations
         E == breq.endpoints
         n == Len(breq.endpoints)
     IN /\ Len(bout.results) = Len(L) * n
        /\ \A i \in 1..Len(L), j \in 1..n :
             bout.results[(i - 1) * n + j]
               = ProcessResult(FetchWeatherData(L[i], E[j], gresp[(i - 1) * n + j]))

\* a batch of two locations and two endpoints has returned after its tasks resolved
\* out of launch order, with different outcomes
C5_Witness ==
  /\ Returned /\ overtook
  /\ Len(breq.locations) = 2 /\ Len(breq.endpoints) = 2
  /\ breq.locations[1] # breq.locations[2]
  /\ breq.endpoints[1] # breq.endpoints[2]
  /\ gresp[1] # gresp[2] /\ gresp[3] = "ok"

C6_State ==
  /\ (bpc = "done" /\ btasks # <<>>) => bstatus = 200
  /\ (bpc = "gathering" /\ \A k \in DOMAIN gathered : gresp[k] # None) => ENABLED FinishBatch
  /\ \A k \in DOMAIN gathered :
       IF gresp[k] = None THEN gathered[k] = Pending
       ELSE /\ gathered[k] = FetchWeatherData(btasks[k].location, btasks[k].endpoint, gresp[k])
            /\ ~gathered[k].raised
            /\ gathered[k].error # None <=> gresp[k] # "ok"
  /\ Returned =>
       \A k \in DOMAIN gathered :
          /\ ~bout.results[k].raised
          /\ bout.results[k].error # None <=> gresp[k] # "ok"

C6_Step ==
  \A k \in DOMAIN gathered, a \in ProviderAnswers :
     ResolveTask(k, a) => \A j \in DOMAIN gathered \ {k} : gathered'[j] = gathered[j]

\* C6: when the fetch of one task fails, processBatch still returns normally, the
\* result at that task's position is an error record, not an exception, and every
\* sibling's outcome is what its own fetch gives: no sibling is cancelled or failed.
C6_FailureIsolation == [](C6_State) /\ [][C6_Step]_vars

\* a batch has returned in which the first task failed and a later one succeeded
C6_Witness ==
  /\ Returned /\ Len(btasks) >= 2
  /\ gresp[1] \in {"http_error", "timeout", "malformed"}
  /\ bout.results[1].error # None
  /\ \E j \in 2..Len(btasks) : gresp[j] = "ok" /\ bout.results[j].error = None

\* C7: summary.failed is the number of error records in results, summary.successful
\* the number of success payloads, successful + failed = total_requests = len(results)
\* = |locations| * |endpoints|, and locations_processed = |locations|.
C7_SummaryCounts ==
  Returned =>
     LET r == bout.results
         sm == bout.summary
     IN /\ sm.failed = Cardinality({k \in 1..Len(r) : r[k].error # None})
        /\ sm.successful = Cardinality({k \in 1..Len(r) : r[k].error = None})
        /\ sm.successful + sm.failed = sm.total_requests
        /\ sm.total_requests = Len(r)
        /\ Len(r) = Len(breq.locations) * Len(breq.endpoints)
        /\ sm.locations_processed = Len(breq.locations)

\* a batch has returned with both failed and successful tasks
C7_Witness ==
  /\ Returned
  /\ bout.summary.failed >= 1 /\ bout.summary.successful >= 2
  /\ bout.summary.total_requests = 4

\* C22: processBatch returns no response while any of its |L|*|E| tasks is
\* unresolved: a response carries one outcome, success or error, per task.
C22_JoinAll ==
  Returned =>
     /\ \A k \in DOMAIN gathered : gathered[k] # Pending
     /\ Len(bout.results) = Len(breq.locations) * Len(breq.endpoints)
     /\ \A k \in DOMAIN gresp : gresp[k] # None

\* a response of two or more outcomes, some failed and some not
C22_Witness ==
  /\ Returned
  /\ Len(bout.results) >= 2
  /\ \E i \in 1..Len(bout.results) : IsError(bout.results[i])
  /\ \E i \in 1..Len(bout.results) : ~IsError(bout.results[i])

\* C23: every error record in results, whatever the cause of the failure, carries
\* the location and the endpoint of the pair it originated from.
C23_ErrorTagging ==
  Returned =>
     \A i \in 1..Len(bout.results) :
        IsError(bout.results[i]) =>
           /\ bout.results[i].location = btasks[i].location
           /\ bout.results[i].endpoint = btasks[i].endpoint

(***************************************************************************)
(* Claims about the cache.                                                 *)
(***************************************************************************)
KeyInputs == Endpoints \X Dicts

\* keys coincide exactly when the endpoint and the denoted mapping coincide
C1_KeyTable ==
  \A a \in KeyInputs, b \in KeyInputs :
     (GenerateKey(a[1], a[2]) = GenerateKey(b[1], b[2]))
       <=> (a[1] = b[1] /\ PairSet(a[2]) = PairSet(b[2]))

\* the step is the call op(endpoint, params), read off the call record it leaves
Called(op, c) == ccall'.op = op /\ ccall'.endpoint = c[1] /\ ccall'.params = c[2]

\* right after set(e, p, r), get(e, p') returns r for every reordering p' of p
C1_SetThenGet ==
  \A c \in CacheInputs, r \in Payloads :
     (Called("set", c) /\ Set(c[1], c[2], r)) =>
        \A p \in Dicts : PairSet(p) = PairSet(c[2]) => GetReturn(CACHE', now', c[1], p) = r

\* an entry written by set(e, p, r) keeps answering get(e, p') with r for every
\* reordering p' of p, while it is within the TTL and no set for the same endpoint
\* and mapping intervenes
C1_Persist ==
  \A k \in DOMAIN CACHE :
     LET e == CACHE[k].endpoint
         m == PairSet(CACHE[k].args)
     IN (/\ now' - CACHE[k].timestamp < TTL
         /\ ~ \E c \in CacheInputs, r2 \in Payloads :
                 c[1] = e /\ PairSet(c[2]) = m /\ Called("set", c) /\ Set(c[1], c[2], r2))
        => \A p \in Dicts : PairSet(p) = m => GetReturn(CACHE', now', e, p) = CACHE[k].data

\* C1: after set(e, p, r), a get(e, p') within the TTL returns r for every p' with
\* the same key/value pairs as p in any key order, and the key differs when the
\* endpoint or a parameter value differs.
C1_CacheKeyDeterminism == [](C1_KeyTable) /\ [][C1_SetThenGet /\ C1_Persist]_vars

\* a get whose params are ordered differently from those of the set that wrote the
\* entry has returned the entry's payload
C1_Witness ==
  /\ ccall.op = "get" /\ ccall.found = "hit"
  /\ LET key == GenerateKey(ccall.endpoint, ccall.params) IN
       /\ key \in DOMAIN CACHE
       /\ CACHE[key].args # ccall.params
       /\ cret.data = CACHE[key].data
       /\ cret.data \in Payloads

\* C2: a get on an entry whose age is >= TTL returns absent and removes the entry,
\* the entry count stats() reports afterwards is lower by at least one, and a get
\* returns a payload only from an entry younger than TTL.
C2_CacheExpiry ==
  [][\A c \in CacheInputs :
       (Called("get", c) /\ Get(c[1], c[2])) =>
         LET key == GenerateKey(c[1], c[2]) IN
           /\ (key \in DOMAIN CACHE /\ now - CACHE[key].timestamp >= TTL)
                => /\ cret'.data = None
                   /\ key \notin DOMAIN CACHE'
                   /\ GetStats(CACHE').total_entries <= GetStats(CACHE).total_entries - 1
           /\ cret'.data # None
                => (key \in DOMAIN CACHE /\ now - CACHE[key].timestamp < TTL)]_vars

\* a get has found an entry of age >= TTL, returned absent and evicted it
C2_Witness ==
  /\ ccall.op = "get" /\ ccall.found = "expired"
  /\ cret.data = None
  /\ GenerateKey(ccall.endpoint, ccall.params) \notin DOMAIN CACHE

(***************************************************************************)
(* Claims about the current-weather request path.                          *)
(***************************************************************************)
\* the number of requests so far that called the provider for the cache key of q
FetchCount(rs, q) ==
  Cardinality({i \in 1..Len(rs) :
                 rs[i].fetched /\ CacheKeyForWeather(rs[i].query) = CacheKeyForWeather(q)})

\* a request with query q arrives from an accepted caller while request i, which
\* fetched q from the provider and was answered 200 at most 60 s ago, is the only
\* request that has called the provider for q
C3_Scenario(i, c, q) ==
  /\ reqs[i].pc = "done" /\ reqs[i].status = 200 /\ reqs[i].fetched
  /\ reqs[i].query = q
  /\ now - reqs[i].finished <= 60
  /\ FetchCount(reqs, q) = 1
  /\ VerifyStatus(API_KEYS_DB, now, c) = 200

C3_Step ==
  \A c \in Callers, q \in Queries :
     (Len(reqs') = Len(reqs) + 1 /\ StartCurrent(c, q)) =>
        \A i \in 1..Len(reqs) :
           C3_Scenario(i, c, q) =>
              LET second == reqs'[Len(reqs')] IN
              /\ second.pc = "done" /\ second.status = 200
              /\ second.body = reqs[i].body
              /\ ~second.fetched
              /\ FetchCount(reqs', q) = 1
              /\ GetStats(CACHE').total_hits = GetStats(CACHE).total_hits + 1

\* C3: when a current-weather request succeeds and a second request with the same
\* query parameters arrives after the first has completed and within 60 s, the
\* second is answered from the cache: it makes no provider fetch (the fetch of the
\* first stays the only one), its response equals the first's, and the total_hits
\* of get_stats is one higher than before it.
C3_EndToEndCacheHit == [][C3_Step]_vars

\* a request was answered from the provider, and 60 s later a second request with
\* the same query was answered with the same body without a fetch
C3_Witness ==
  \E i \in 1..Len(reqs), j \in 1..Len(reqs) :
     /\ i < j
     /\ reqs[i].pc = "done" /\ reqs[i].status = 200 /\ reqs[i].fetched
     /\ reqs[j].pc = "done" /\ reqs[j].status = 200 /\ ~reqs[j].fetched
     /\ reqs[j].query = reqs[i].query
     /\ reqs[j].body = reqs[i].body
     /\ reqs[j].finished = reqs[i].finished + 60
     /\ FetchCount(reqs, reqs[i].query) = 1
     /\ GetStats(CACHE).total_hits = 1

\* C17: every current-weather request whose provider fetch and normalization succeed
\* is answered 200 with the reading, whatever happens in the webhook path, and a
\* failure on one subscription does not stop the evaluation of the others.
C17_WebhookContainment ==
  [][\A r \in 1..MaxRequests, w \in Readings :
        (r \in DOMAIN reqs /\ reqs[r].pc = "fetching" /\ ProviderResponds(r, "ok", w)) =>
           /\ reqs'[r].status = 200
           /\ reqs'[r].body = w
           /\ ~CheckAndTriggerWebhooks(WEBHOOKS_DB, w, KeyChars(reqs[r].credential)).raised]_vars

\* C18: a current-weather request that triggers a webhook returns its response
\* without waiting for any delivery, also when a dispatched delivery never
\* completes, and it is suspended only inside the block of the provider fetch.
C18_FireAndForget ==
  /\ [](\A r \in DOMAIN reqs : reqs[r].pc \in {"fetching", "closing", "done"})
  /\ \A r \in 1..MaxRequests :
        (r \in DOMAIN reqs) ~> (r \in DOMAIN reqs /\ reqs[r].pc = "done")

\* a request that triggered a delivery has its 200 response while the delivery is
\* still unsent
C18_Witness ==
  /\ Len(reqs) = 1
  /\ reqs[1].pc = "done" /\ reqs[1].status = 200 /\ reqs[1].fetched
  /\ deliveries # <<>>

\* C20: once delete(id, owner) has returned true, no HTTP POST is made for that
\* subscription afterwards, whatever the interleaving of the delete with requests
\* and with deliveries dispatched before it.
C20_DeletionStopsNotifications ==
  [][Deliver => \A d \in deleted : Head(deliveries).webhook_id # d[2]]_vars


\* C26: every current-weather request that returns a reading, whether the reading
\* came from the provider or from the cache, has the caller's active subscriptions
\* for the reading's city evaluated against it: a subscription with a condition
\* that is true of the reading gets a delivery dispatched by that request.
C26_EvaluationOnEveryReading ==
  [][\A r \in DOMAIN reqs' :
        ((r \notin DOMAIN reqs \/ reqs[r].pc = "fetching") /\ reqs'[r].status = 200) =>
           LET selected == MatchingWebhooks(WEBHOOKS_DB, reqs'[r].body,
                                            KeyChars(reqs'[r].credential))
           IN \A k \in 1..Len(selected) :
                 (\E c \in 1..Len(selected[k].conditions) :
                     EvaluateCondition(selected[k].conditions[c], reqs'[r].body) = "true")
                 => \E d \in (Len(deliveries) + 1)..Len(deliveries') :
                       deliveries'[d].webhook_id = selected[k].id]_vars

(***************************************************************************)
(* Claims about the historical endpoint.                                   *)
(***************************************************************************)

HistoricalInvalid(in) ==
  \/ ~Strptime(in.start_date).ok
  \/ ~Strptime(in.end_date).ok
  \/ Strptime(in.start_date).ordinal > Strptime(in.end_date).ordinal
  \/ Strptime(in.end_date).ordinal - Strptime(in.start_date).ordinal > 365
  \/ Strptime(in.end_date).ordinal > in.today

\* C27: a historical request of an authorized caller whose start_date is after its
\* end_date, whose range exceeds 365 days, whose end_date is in the future, or
\* whose dates are not in YYYY-MM-DD format is answered with status 400 and a
\* message, and no provider fetch is made for it.
C27_HistoricalValidation ==
  (fin.f = "historical" /\ fout # NoOutput /\ fout.auth = 200 /\ HistoricalInvalid(fin)) =>
     /\ fout.pc = "done"
     /\ fout.status = 400
     /\ fout.detail # ""
     /\ ~fout.fetched

(***************************************************************************)
(* Claims about concurrent requests and the counters.                      *)
(***************************************************************************)

\* C28: of the current-weather requests with one cache key that overlap in time,
\* only the first fetches from the provider: a request that starts while an
\* earlier one with its key is still awaiting the provider does not fetch.
C28_SingleFetch ==
  \A r1 \in DOMAIN reqs, r2 \in DOMAIN reqs :
     (r1 < r2
      /\ GenerateKey("current_weather", CacheKeyForWeather(reqs[r1].query))
           = GenerateKey("current_weather", CacheKeyForWeather(reqs[r2].query))
      /\ reqs[r1].pc = "fetching")
     => ~reqs[r2].fetched

\* C29: in every reachable state of the cache each entry's hit count is the number
\* of gets that returned its payload since its last set; a get that returns a
\* payload adds 1 to that entry's count and changes nothing else; a set on an
\* existing key replaces payload and creation time and puts the count at 0;
\* get_stats reports as total_hits the sum of the counts of the entries stored,
\* which a set over an entry with hits, or the eviction of entries, lowers by
\* their counts.
C29_HitCountAccounting ==
  /\ [](\A k \in DOMAIN CACHE : CACHE[k].hits = cgets[k])
  /\ [](ccall.op = "get_stats" =>
          cret.total_hits = SumOver(DOMAIN CACHE, [k \in DOMAIN CACHE |-> CACHE[k].hits]))
  /\ [][/\ (ccall'.op = "get" /\ cret'.data # None /\ <<CACHE, ccall, cret>>' # <<CACHE, ccall, cret>>) =>
            LET key == GenerateKey(ccall'.endpoint, ccall'.params) IN
            /\ key \in DOMAIN CACHE
            /\ CACHE' = [CACHE EXCEPT ![key].hits = @ + 1]
        /\ (ccall'.op = "set" /\ <<CACHE, ccall, cret>>' # <<CACHE, ccall, cret>>) =>
            LET key == GenerateKey(ccall'.endpoint, ccall'.params) IN
            /\ CACHE'[key].hits = 0
            /\ CACHE'[key].timestamp = now
            /\ \A k \in DOMAIN CACHE \ {key} : k \in DOMAIN CACHE' /\ CACHE'[k] = CACHE[k]
            /\ key \in DOMAIN CACHE =>
                 GetStats(CACHE').total_hits = GetStats(CACHE).total_hits - CACHE[key].hits
        /\ DOMAIN CACHE \ DOMAIN CACHE' # {} =>
              GetStats(CACHE').total_hits
                = GetStats(CACHE).total_hits
                  - SumOver(DOMAIN CACHE \ DOMAIN CACHE',
                            [k \in DOMAIN CACHE |-> CACHE[k].hits])]_vars

C29_Witness ==
  /\ ccall.op = "get_stats"
  /\ cret.total_hits = 2
  /\ \E k \in DOMAIN CACHE : CACHE[k].hits = 2 /\ CACHE[k].timestamp > 0
====
